---- MODULE Spec2Model ----
(***************************************************************************)
(* Model of internal/datastore/common/sql.go: the SchemaQueryFilterer      *)
(* (chainable query filter builder) and the TupleQuerySplitter (size       *)
(* bounded userset splitter and sequential executor), together with the    *)
(* postgres adapter that drives them.                                      *)
(***************************************************************************)
EXTENDS Integers, Sequences, FiniteSets, TLC

VARIABLES
    heap,       \* backing arrays of every []attribute.KeyValue allocated so far
    reg,        \* builder values held by a caller of the filter builder
    nops,       \* number of builder operations applied by that caller
    ctq,        \* the TupleQuerySplitter value SplitAndExecute runs on
    pc,         \* position of the SplitAndExecute call
    queries,    \* SplitAndExecute: queries
    splitIndexes, \* SplitAndExecute: splitIndexes
    index,      \* SplitAndExecute: loop index over queries (0-based)
    tuples,     \* SplitAndExecute: tuples
    query,      \* executeSingleQuery: query (the builder after Limit)
    limit,      \* executeSingleQuery: limit
    found,      \* executeSingleQuery: tuples
    rows,       \* pgx.Rows: what the backend still has to deliver
    txs,        \* every transaction begun on Conn, with its state
    log,        \* calls made on the backend and the hook, in order
    avail,      \* rows matching each issued statement, LIMIT aside
    cancelled,  \* whether the caller's context has been cancelled
    cancelAt,   \* the partition in flight when it was cancelled
    ret         \* what SplitAndExecute returned

vars == <<heap, reg, nops, ctq, pc, queries, splitIndexes, index, tuples, query,
          limit, found, rows, txs, log, avail, cancelled, cancelAt, ret>>

builderVars == <<heap, reg, nops>>
splitterVars == <<ctq, pc, queries, splitIndexes, index, tuples, query, limit,
                  found, rows, txs, log, avail, cancelled, cancelAt, ret>>
\* The splitter's variables other than the position of the caller.
callVars == <<ctq, queries, splitIndexes, index, tuples, query, limit, found,
              rows, txs, log, avail, cancelled, cancelAt, ret>>

-----------------------------------------------------------------------------
(* Bounds of the model.                                                    *)

\* uint64 and int are modelled UintBits wide (both have the same width on
\* the 64-bit builds the datastore ships for).
UintBits == 4
\* Longest userset list handed to the splitter.
MaxUsersets == 3
\* Most rows one statement matches.
MaxRows == 2
\* Most builder operations one caller chains and branches.
MaxOps == 3

\* Builder variables one caller of the filter builder holds.
Slots == 1..3

Min(a, b) == IF a < b THEN a ELSE b

RECURSIVE SumSeq(_)
SumSeq(s) == IF s = <<>> THEN 0 ELSE Head(s) + SumSeq(Tail(s))

-----------------------------------------------------------------------------
(* Go integers and slices.                                                 *)

UintMod == 2 ^ UintBits

\* uint64 subtraction wraps around.
USub(a, b) == (a - b + UintMod) % UintMod

\* int(u) and int64(u) of a uint64 u reinterpret the bits as two's complement.
ToInt(u) == IF u >= UintMod \div 2 THEN u - UintMod ELSE u

\* attribute.KeyValue: Key.String(s) or Key.Int64(i).
KeyValue(k, s, i) == [Key |-> k, Str |-> s, Int |-> i]
ZeroKeyValue == KeyValue("", "", 0)

\* A slice header: backing array (0 is nil), length and capacity.
NilSlice == [arr |-> 0, len |-> 0, cap |-> 0]

\* The elements a slice header sees.
Elems(h, s) == IF s.len = 0 THEN <<>> ELSE SubSeq(h[s.arr], 1, s.len)

\* The capacity append grows a full slice of small capacity to.
growslice(cap) == IF cap = 0 THEN 1 ELSE 2 * cap

\* append(s, v): in place when capacity is left, else into a new array.
append(h, s, v) ==
    IF s.len < s.cap
    THEN [heap |-> [h EXCEPT ![s.arr][s.len + 1] = v],
          slice |-> [s EXCEPT !.len = s.len + 1]]
    ELSE LET newcap == growslice(s.cap)
             arr == [i \in 1..newcap |->
                        IF i <= s.len THEN h[s.arr][i]
                        ELSE IF i = s.len + 1 THEN v ELSE ZeroKeyValue]
         IN [heap |-> Append(h, arr),
             slice |-> [arr |-> Len(h) + 1, len |-> s.len + 1, cap |-> newcap]]

-----------------------------------------------------------------------------
(* SchemaInformation and the squirrel statement.                           *)

schema == [ColNamespace |-> "namespace",
           ColObjectID |-> "object_id",
           ColRelation |-> "relation",
           ColUsersetNamespace |-> "userset_namespace",
           ColUsersetObjectID |-> "userset_object_id",
           ColUsersetRelation |-> "userset_relation"]

\* sq.Eq{col: val}
Eq(col, val) == [kind |-> "eq", col |-> col, val |-> val, terms |-> <<>>]
\* sq.Or{...}, one conjunction of three equalities per userset
Or(terms) == [kind |-> "or", col |-> "", val |-> "", terms |-> terms]

\* A variant in which the last predicate replaces the ones before it.
WhereReplace(qb, pred) == [qb EXCEPT !.Where = <<pred>>]

\* SelectBuilder.Where and SelectBuilder.Limit return a new statement.
Where(qb, pred) == [qb EXCEPT !.Where = Append(qb.Where, pred)]
SqLimit(qb, n) == [qb EXCEPT !.Limit = <<n>>]

\* datastore.Ellipsis, the subject relation an empty one is normalised to.
Ellipsis == "..."

\* stringz.DefaultEmpty
DefaultEmpty(s, d) == IF s = "" THEN d ELSE s

-----------------------------------------------------------------------------
(* SchemaQueryFilterer.  Every operation takes the heap and the receiver   *)
(* (passed by value) and returns the heap and the builder it returns.  A   *)
(* nil pointer is the empty sequence and a set one a one-element sequence  *)
(* (SubjectFilter.OptionalRelation, TupleQuerySplitter.Limit, the          *)
(* statement's LIMIT).                                                     *)

NewSchemaQueryFilterer(initialQuery) ==
    [queryBuilder |-> initialQuery,
     currentEstimatedSize |-> 0,
     tracerAttributes |-> NilSlice]

FilterToResourceType(h, sqf, resourceType) ==
    LET a == append(h, sqf.tracerAttributes,
                    KeyValue("objNamespaceName", resourceType, 0))
    IN [heap |-> a.heap,
        sqf |-> [queryBuilder |-> Where(sqf.queryBuilder,
                                        Eq(schema.ColNamespace, resourceType)),
                 tracerAttributes |-> a.slice,
                 currentEstimatedSize |->
                     sqf.currentEstimatedSize + Len(resourceType)]]

FilterToResourceID(h, sqf, objectID) ==
    LET a == append(h, sqf.tracerAttributes, KeyValue("objId", objectID, 0))
    IN [heap |-> a.heap,
        sqf |-> [queryBuilder |-> Where(sqf.queryBuilder,
                                        Eq(schema.ColObjectID, objectID)),
                 tracerAttributes |-> a.slice,
                 currentEstimatedSize |->
                     sqf.currentEstimatedSize + Len(objectID)]]

\* A variant that leaves the estimated size as it was.
FilterToRelationNoSize(h, sqf, relation) ==
    LET a == append(h, sqf.tracerAttributes,
                    KeyValue("objRelationName", relation, 0))
    IN [heap |-> a.heap,
        sqf |-> [queryBuilder |-> Where(sqf.queryBuilder,
                                        Eq(schema.ColRelation, relation)),
                 tracerAttributes |-> a.slice,
                 currentEstimatedSize |-> sqf.currentEstimatedSize]]

FilterToRelation(h, sqf, relation) ==
    LET a == append(h, sqf.tracerAttributes,
                    KeyValue("objRelationName", relation, 0))
    IN [heap |-> a.heap,
        sqf |-> [queryBuilder |-> Where(sqf.queryBuilder,
                                        Eq(schema.ColRelation, relation)),
                 tracerAttributes |-> a.slice,
                 currentEstimatedSize |->
                     sqf.currentEstimatedSize + Len(relation)]]

FilterToSubjectFilter(h, sqf, filter) ==
    LET a1 == append(h, sqf.tracerAttributes,
                     KeyValue("subNamespaceName", filter.SubjectType, 0))
        q1 == Where(sqf.queryBuilder,
                    Eq(schema.ColUsersetNamespace, filter.SubjectType))
        hasId == filter.OptionalSubjectId # ""
        a2 == IF hasId
              THEN append(a1.heap, a1.slice,
                          KeyValue("subObjectId", filter.OptionalSubjectId, 0))
              ELSE a1
        q2 == IF hasId
              THEN Where(q1, Eq(schema.ColUsersetObjectID,
                                filter.OptionalSubjectId))
              ELSE q1
        s2 == sqf.currentEstimatedSize + Len(filter.SubjectType)
                  + Len(filter.OptionalSubjectId)
        hasRel == filter.OptionalRelation # <<>>
        dsRelationName == IF hasRel
                          THEN DefaultEmpty(filter.OptionalRelation[1], Ellipsis)
                          ELSE ""
        a3 == IF hasRel
              THEN append(a2.heap, a2.slice,
                          KeyValue("subRelationName", dsRelationName, 0))
              ELSE a2
        q3 == IF hasRel
              THEN Where(q2, Eq(schema.ColUsersetRelation, dsRelationName))
              ELSE q2
        s3 == IF hasRel THEN s2 + Len(dsRelationName) ELSE s2
    IN [heap |-> a3.heap,
        sqf |-> [queryBuilder |-> q3,
                 tracerAttributes |-> a3.slice,
                 currentEstimatedSize |-> s3]]

\* len(userset.Namespace) + len(userset.ObjectId) + len(userset.Relation)
UsersetSize(userset) ==
    Len(userset.Namespace) + Len(userset.ObjectId) + Len(userset.Relation)

\* A variant that accepts an empty list.
PanicsNever(usersets) == FALSE

\* The panic of FilterToUsersets.
Panics(usersets) == Len(usersets) = 0

FilterToUsersets(h, sqf, usersets) ==
    [heap |-> h,
     sqf |-> [queryBuilder |-> Where(sqf.queryBuilder, Or(usersets)),
              tracerAttributes |-> sqf.tracerAttributes,
              currentEstimatedSize |->
                  sqf.currentEstimatedSize
                      + SumSeq([i \in 1..Len(usersets) |->
                                   UsersetSize(usersets[i])])]]

Limit(h, sqf, n) ==
    LET a == append(h, sqf.tracerAttributes, KeyValue("limit", "", ToInt(n)))
    IN [heap |-> a.heap,
        sqf |-> [queryBuilder |-> SqLimit(sqf.queryBuilder, n),
                 tracerAttributes |-> a.slice,
                 currentEstimatedSize |-> sqf.currentEstimatedSize]]

\* What a holder of builder b observes of it: its statement, its estimated
\* size and its attribute list.
View(h, b) == [queryBuilder |-> b.queryBuilder,
               currentEstimatedSize |-> b.currentEstimatedSize,
               tracerAttributes |-> Elems(h, b.tracerAttributes)]

-----------------------------------------------------------------------------
(* A caller of the filter builder: it chains operations on the builders it *)
(* holds, assigning each result back to the same variable or to a new one. *)

\* The statement a builder starts from: the six columns of the tuple table.
queryTuples == [Where |-> <<>>, Limit |-> <<>>]

Userset(ns, id, rel) == [Namespace |-> ns, ObjectId |-> id, Relation |-> rel]

Operation(op, s, f, us, n) == [op |-> op, s |-> s, f |-> f, us |-> us, n |-> n]
NoFilter == [SubjectType |-> "", OptionalSubjectId |-> "", OptionalRelation |-> <<>>]

\* The operations the caller chooses from.
Operations ==
    { Operation("FilterToResourceType", "doc", NoFilter, <<>>, 0),
      Operation("FilterToResourceID", "1", NoFilter, <<>>, 0),
      Operation("FilterToRelation", "view", NoFilter, <<>>, 0),
      Operation("FilterToSubjectFilter", "",
                [SubjectType |-> "user", OptionalSubjectId |-> "",
                 OptionalRelation |-> <<>>], <<>>, 0),
      Operation("FilterToSubjectFilter", "",
                [SubjectType |-> "user", OptionalSubjectId |-> "7",
                 OptionalRelation |-> <<"">>], <<>>, 0),
      Operation("FilterToUsersets", "", NoFilter,
                <<Userset("user", "7", "...")>>, 0),
      Operation("FilterToUsersets", "", NoFilter, <<>>, 0),
      Operation("Limit", "", NoFilter, <<>>, 1),
      Operation("Limit", "", NoFilter, <<>>, 2) }

Apply(h, sqf, o) ==
    CASE o.op = "FilterToResourceType" -> FilterToResourceType(h, sqf, o.s)
      [] o.op = "FilterToResourceID" -> FilterToResourceID(h, sqf, o.s)
      [] o.op = "FilterToRelation" -> FilterToRelation(h, sqf, o.s)
      [] o.op = "FilterToSubjectFilter" -> FilterToSubjectFilter(h, sqf, o.f)
      [] o.op = "FilterToUsersets" -> FilterToUsersets(h, sqf, o.us)
      [] o.op = "Limit" -> Limit(h, sqf, o.n)

InitBuilder ==
    /\ heap = <<>>
    /\ reg = (1 :> NewSchemaQueryFilterer(queryTuples))
    /\ nops = 0
    /\ ctq = <<>>
    /\ pc = "idle"
    /\ queries = <<>>
    /\ splitIndexes = <<>>
    /\ index = 0
    /\ tuples = <<>>
    /\ query = <<>>
    /\ limit = 0
    /\ found = <<>>
    /\ rows = <<>>
    /\ txs = <<>>
    /\ log = <<>>
    /\ avail = <<>>
    /\ cancelled = FALSE
    /\ cancelAt = -1
    /\ ret = <<>>

\* Whether applying the operation panics instead of returning a builder.
ApplyPanics(o) == o.op = "FilterToUsersets" /\ Panics(o.us)

\* b = b.Op(...): the result replaces the receiver in the caller's variable,
\* unless the operation panics, which ends the caller.
Chain(s, o) ==
    /\ pc = "idle"
    /\ nops < MaxOps
    /\ s \in DOMAIN reg
    /\ IF ApplyPanics(o)
       THEN /\ pc' = "panic"
            /\ UNCHANGED <<heap, reg>>
       ELSE /\ LET r == Apply(heap, reg[s], o)
               IN /\ heap' = r.heap
                  /\ reg' = [reg EXCEPT ![s] = r.sqf]
            /\ pc' = pc
    /\ nops' = nops + 1
    /\ UNCHANGED callVars

\* d := b.Op(...): the result goes to a new variable, the receiver is kept.
Branch(s, o) ==
    /\ pc = "idle"
    /\ nops < MaxOps
    /\ s \in DOMAIN reg
    /\ Cardinality(DOMAIN reg) < Cardinality(Slots)
    /\ IF ApplyPanics(o)
       THEN /\ pc' = "panic"
            /\ UNCHANGED <<heap, reg>>
       ELSE /\ LET r == Apply(heap, reg[s], o)
                   d == Cardinality(DOMAIN reg) + 1
               IN /\ heap' = r.heap
                  /\ reg' = reg @@ (d :> r.sqf)
            /\ pc' = pc
    /\ nops' = nops + 1
    /\ UNCHANGED callVars

NextBuilder ==
    \/ \E s \in Slots, o \in Operations : Chain(s, o)
    \/ \E s \in Slots, o \in Operations : Branch(s, o)

SpecBuilder == InitBuilder /\ [][NextBuilder]_vars

-----------------------------------------------------------------------------
(* Two builders filtered side by side, as the two query entry points of    *)
(* the adapter do with the same filters in different orders, and the rows  *)
(* their statements select.                                                *)

\* The equality filters applied.
EqualityOperations ==
    { o \in Operations :
        \/ o.op \in {"FilterToResourceType", "FilterToResourceID",
                     "FilterToRelation"}
        \/ o.op = "FilterToSubjectFilter" /\ o.f.OptionalRelation # <<>> }

InitOrder ==
    /\ heap = <<>>
    /\ reg = (1 :> NewSchemaQueryFilterer(queryTuples)
              @@ 2 :> NewSchemaQueryFilterer(queryTuples))
    /\ nops = 0
    /\ ctq = <<>>
    /\ pc = "idle"
    /\ queries = <<>>
    /\ splitIndexes = <<>>
    /\ index = 0
    /\ tuples = <<>>
    /\ query = <<>>
    /\ limit = 0
    /\ found = <<>>
    /\ rows = <<>>
    /\ txs = <<>>
    /\ log = <<>>
    /\ avail = <<>>
    /\ cancelled = FALSE
    /\ cancelAt = -1
    /\ ret = <<>>

\* qBuilder = qBuilder.FilterTo...(...) on one of the two builders.
ChainFilter(s, o) ==
    /\ reg[s].tracerAttributes.len < MaxOps
    /\ LET r == Apply(heap, reg[s], o)
       IN /\ heap' = r.heap
          /\ reg' = [reg EXCEPT ![s] = r.sqf]
    /\ nops' = nops + 1
    /\ UNCHANGED splitterVars

NextOrder == \E s \in {1, 2}, o \in EqualityOperations : ChainFilter(s, o)

SpecOrder == InitOrder /\ [][NextOrder]_vars

\* The stored tuples a statement is run against: one row per combination of
\* two values of every column an equality filter names.
StoredTuples ==
    [namespace : {"doc", "folder"}, object_id : {"1", "2"},
     relation : {"view", "edit"}, userset_namespace : {"user", "group"},
     userset_object_id : {"7"}, userset_relation : {"...", "member"}]

\* The tables a statement is run against: every set of at most two stored
\* tuples (a WHERE clause selects row by row).
Tables == {{}} \cup { {t, u} : t \in StoredTuples, u \in StoredTuples }

\* Whether a row satisfies a predicate of the WHERE clause.
Matches(t, p) ==
    IF p.kind = "eq" THEN t[p.col] = p.val
    ELSE \E k \in 1..Len(p.terms) :
            /\ t[schema.ColUsersetNamespace] = p.terms[k].Namespace
            /\ t[schema.ColUsersetObjectID] = p.terms[k].ObjectId
            /\ t[schema.ColUsersetRelation] = p.terms[k].Relation

\* The rows of a table a statement selects: those that satisfy every
\* predicate of its WHERE clause.
Selected(qb, table) ==
    { t \in table : \A k \in 1..Len(qb.Where) : Matches(t, qb.Where[k]) }

-----------------------------------------------------------------------------
(* TupleQuerySplitter.SplitAndExecute: the split.                          *)

\* The scan of SplitAndExecute over ctq.Usersets from (1-based) position i,
\* with currentEstimatedDataSize = size, currentUsersetCount = count and the
\* split indexes (0-based, as in the code) found so far.
\* A variant that splits only once the threshold is exceeded.
SplitBeforeWhenOver(count, usersetSize, size, threshold) ==
    count > 0 /\ usersetSize + size > threshold

\* A variant that splits whatever the current partition holds.
SplitBeforeAlways(count, usersetSize, size, threshold) ==
    usersetSize + size >= threshold

\* currentUsersetCount > 0 &&
\*     estimatedUsersetSize+currentEstimatedDataSize >= int(threshold)
SplitBefore(count, usersetSize, size, threshold) ==
    count > 0 /\ usersetSize + size >= threshold

RECURSIVE ScanUsersets(_, _, _, _, _, _, _)
ScanUsersets(usersets, i, size, count, base, threshold, indexes) ==
    IF i > Len(usersets) THEN indexes
    ELSE LET estimatedUsersetSize == UsersetSize(usersets[i])
             split == SplitBefore(count, estimatedUsersetSize, size, threshold)
             size1 == IF split THEN base ELSE size
             indexes1 == IF split THEN Append(indexes, i - 1) ELSE indexes
         IN ScanUsersets(usersets, i + 1, size1 + estimatedUsersetSize,
                         count + 1, base, threshold, indexes1)

\* A variant whose running size starts from 0 instead of the base size.
SplitIndexesFromZero(c) ==
    ScanUsersets(c.Usersets, 1, 0, 0,
                 c.FilteredQueryBuilder.currentEstimatedSize,
                 c.SplitAtEstimatedQuerySize, <<>>)

SplitIndexes(c) ==
    ScanUsersets(c.Usersets, 1, c.FilteredQueryBuilder.currentEstimatedSize, 0,
                 c.FilteredQueryBuilder.currentEstimatedSize,
                 c.SplitAtEstimatedQuerySize, <<>>)

\* A variant that starts one element late.
SliceLate(s, from, to) == SubSeq(s, from + 2, to)

\* The Go slice s[from:to] of a sequence (0-based, to excluded).
Slice(s, from, to) == SubSeq(s, from + 1, to)

\* The userset slices the materialisation loop hands to FilterToUsersets:
\* Usersets[startIndex:splitIndex] for every split index, then
\* Usersets[startIndex:].
UsersetSlices(usersets, splits) ==
    [k \in 1..(Len(splits) + 1) |->
        Slice(usersets,
              IF k = 1 THEN 0 ELSE splits[k - 1],
              IF k <= Len(splits) THEN splits[k] ELSE Len(usersets))]

\* A variant whose sub-queries also carry the usersets of the partitions
\* before them.
QueriesCumulative(h, c, splits) ==
    IF Len(c.Usersets) > 0
    THEN [k \in 1..(Len(splits) + 1) |->
             FilterToUsersets(h, c.FilteredQueryBuilder,
                 Slice(c.Usersets, 0,
                       IF k <= Len(splits) THEN splits[k]
                       ELSE Len(c.Usersets))).sqf]
    ELSE <<c.FilteredQueryBuilder>>

\* queries, as SplitAndExecute builds it.
Queries(h, c, splits) ==
    IF Len(c.Usersets) > 0
    THEN LET slices == UsersetSlices(c.Usersets, splits)
         IN [k \in 1..Len(slices) |->
                FilterToUsersets(h, c.FilteredQueryBuilder, slices[k]).sqf]
    ELSE <<c.FilteredQueryBuilder>>

-----------------------------------------------------------------------------
(* The postgres adapter building the splitter.                             *)

\* filterToLivingObjects: the statement restricted to the rows alive at the
\* revision.
filterToLivingObjects(qb, revision) ==
    Where(qb, [kind |-> "living", col |-> "", val |-> ToString(revision),
               terms |-> <<>>])

\* qBuilder of pgDatastore.QueryTuples.
QueryTuplesBuilder(filter, revision) ==
    LET b0 == NewSchemaQueryFilterer(filterToLivingObjects(queryTuples, revision))
        r1 == FilterToResourceType(<<>>, b0, filter.ResourceType)
        r2 == IF filter.OptionalResourceId # ""
              THEN FilterToResourceID(r1.heap, r1.sqf, filter.OptionalResourceId)
              ELSE r1
        r3 == IF filter.OptionalRelation # ""
              THEN FilterToRelation(r2.heap, r2.sqf, filter.OptionalRelation)
              ELSE r2
        r4 == IF filter.OptionalSubjectFilter # <<>>
              THEN FilterToSubjectFilter(r3.heap, r3.sqf,
                                         filter.OptionalSubjectFilter[1])
              ELSE r3
    IN r4

\* ctq of pgDatastore.QueryTuples.
QueryTuples(b, splitAt, revision, prepare, lim, usersets) ==
    [PrepareTransaction |-> prepare,
     SplitAtEstimatedQuerySize |-> splitAt,
     FilteredQueryBuilder |-> b,
     Revision |-> revision,
     Limit |-> lim,
     Usersets |-> usersets]

-----------------------------------------------------------------------------
(* Inputs of a SplitAndExecute call.                                       *)

\* A filter on the resource type alone (estimated size 3) and one on type,
\* id and relation (estimated size 8).
FilterByType ==
    [ResourceType |-> "doc", OptionalResourceId |-> "",
     OptionalRelation |-> "", OptionalSubjectFilter |-> <<>>]
FilterByTypeIdRelation ==
    [ResourceType |-> "doc", OptionalResourceId |-> "1",
     OptionalRelation |-> "view", OptionalSubjectFilter |-> <<>>]

RelationshipFilters == {FilterByType, FilterByTypeIdRelation}

Revisions == {1, 2}

\* queryOpts.Limit: not set, or a uint64.
Limits == {<<>>} \cup { <<n>> : n \in {0, 1, MaxRows + 1, UintMod \div 2} }

\* The usersets a caller asks about (sizes 2 and 4).
UsersetUniverse == { Userset("a", "1", ""), Userset("bb", "2", "m") }

SeqsUpTo(S, n) == UNION { [1..k -> S] : k \in 0..n }

\* The requests served: a filter and pgd.splitAtEstimatedQuerySize, in bytes.
Requests ==
    { [filter |-> FilterByType, splitAt |-> 8],
      [filter |-> FilterByType, splitAt |-> 12],
      [filter |-> FilterByTypeIdRelation, splitAt |-> 12] }

Init ==
    /\ \E req \in Requests, revision \in Revisions,
          lim \in Limits, usersets \in SeqsUpTo(UsersetUniverse, MaxUsersets),
          prepare \in BOOLEAN :
          LET r == QueryTuplesBuilder(req.filter, revision)
          IN /\ heap = r.heap
             /\ ctq = QueryTuples(r.sqf, req.splitAt, revision, prepare, lim,
                                  usersets)
    /\ reg = <<>>
    /\ nops = 0
    /\ pc = "SplitAndExecute"
    /\ queries = <<>>
    /\ splitIndexes = <<>>
    /\ index = 0
    /\ tuples = <<>>
    /\ query = <<>>
    /\ limit = 0
    /\ found = <<>>
    /\ rows = <<>>
    /\ txs = <<>>
    /\ log = <<>>
    /\ avail = <<>>
    /\ cancelled = FALSE
    /\ cancelAt = -1
    /\ ret = <<>>

-----------------------------------------------------------------------------
(* TupleQuerySplitter.SplitAndExecute and executeSingleQuery, one action   *)
(* per call they make on the statement, the pool, the hook and the rows.   *)

\* datastore.SeparateContextWithTracing: whether the context handed to the
\* pool, the hook and the statement is done, given whether the caller's is.
SeparateContextWithTracing(callerDone) == callerDone

ctxDone == SeparateContextWithTracing(cancelled)

\* One call made by executeSingleQuery, as recorded in log.
Call(name, rev, ok) ==
    [call |-> name, index |-> index, rev |-> rev,
     stmt |-> query.queryBuilder, ok |-> ok]

\* A variant that hands back what was collected along with the error.
ReturnErrorWithTuples(ts) == [iter |-> ts, err |-> TRUE]

\* return nil, err
ReturnError(ts) == [iter |-> <<>>, err |-> TRUE]

\* return iter, nil with iter = datastore.NewSliceTupleIterator(tuples)
ReturnTuples(ts) == [iter |-> ts, err |-> FALSE]

\* A variant that leaves the transaction as it is.
RollbackNothing(t) == t

\* defer tx.Rollback(ctx), run when executeSingleQuery returns.
Rollback(t) == [t EXCEPT ![Len(t)].state = "rolledback"]

\* A variant that forgets what was collected.
NewLimitWhole(c, ts) == c.Limit[1]

\* newLimit = *ctq.Limit - uint64(len(tuples))
NewLimit(c, ts) == USub(c.Limit[1], Len(ts) % UintMod)

\* A variant that never stops at the cap.
CapReachedNever(lim, ts) == FALSE

\* limit > 0 && len(tuples) >= int(limit)
CapReached(lim, ts) == lim > 0 /\ Len(ts) >= ToInt(lim)

\* The rows the backend sends for a statement that n rows match: at most the
\* statement's LIMIT when it honours it, all n when it does not.
Delivered(stmt, n, honours) ==
    IF stmt.Limit # <<>> /\ honours THEN Min(n, stmt.Limit[1]) ELSE n

\* A variant that never calls the hook.
AfterBeginTxNoHook(c) == "Query"

\* if ctq.PrepareTransaction != nil: the stage that follows BeginTx.
AfterBeginTx(c) == IF c.PrepareTransaction THEN "PrepareTransaction" ELSE "Query"

\* Lines 191-219 and 227: the split and the materialised queries.
Split ==
    /\ pc = "SplitAndExecute"
    /\ LET splits == IF Len(ctq.Usersets) > 0 THEN SplitIndexes(ctq) ELSE <<>>
           slices == UsersetSlices(ctq.Usersets, splits)
       IN /\ splitIndexes' = splits
          /\ IF Len(ctq.Usersets) > 0
                /\ \E k \in 1..Len(slices) : Panics(slices[k])
             THEN /\ pc' = "panic"
                  /\ queries' = queries
             ELSE /\ pc' = "loop"
                  /\ queries' = Queries(heap, ctq, splits)
    /\ index' = 0
    /\ tuples' = <<>>
    /\ UNCHANGED <<builderVars, ctq, query, limit, found, rows, txs, log, avail,
                   cancelled, cancelAt, ret>>

\* Lines 228-239: the next query is handed to executeSingleQuery.
Iterate ==
    /\ pc = "loop"
    /\ index < Len(queries)
    /\ IF ctq.Limit # <<>>
       THEN /\ NewLimit(ctq, tuples) > 0
            /\ LET r == Limit(heap, queries[index + 1], NewLimit(ctq, tuples))
               IN /\ heap' = r.heap
                  /\ query' = r.sqf
            /\ limit' = NewLimit(ctq, tuples)
       ELSE /\ heap' = heap
            /\ query' = queries[index + 1]
            /\ limit' = 0
    /\ found' = <<>>
    /\ pc' = "ToSql"
    /\ UNCHANGED <<reg, nops, ctq, queries, splitIndexes, index, tuples, rows,
                   txs, log, avail, cancelled, cancelAt, ret>>

\* Lines 230-234: nothing remains of the limit, the loop is left.
Break ==
    /\ pc = "loop"
    /\ index < Len(queries)
    /\ ctq.Limit # <<>>
    /\ NewLimit(ctq, tuples) <= 0
    /\ pc' = "done"
    /\ ret' = ReturnTuples(tuples)
    /\ UNCHANGED <<builderVars, ctq, queries, splitIndexes, index, tuples, query,
                   limit, found, rows, txs, log, avail, cancelled, cancelAt>>

\* Lines 244-248: every query has been executed.
Finish ==
    /\ pc = "loop"
    /\ index >= Len(queries)
    /\ pc' = "done"
    /\ ret' = ReturnTuples(tuples)
    /\ UNCHANGED <<builderVars, ctq, queries, splitIndexes, index, tuples, query,
                   limit, found, rows, txs, log, avail, cancelled, cancelAt>>

\* A variant whose failure paths return without the rollback.
FailWithoutRollback(name, rev, begun) ==
    /\ log' = Append(log, Call(name, rev, FALSE))
    /\ txs' = txs
    /\ pc' = "done"
    /\ ret' = ReturnError(tuples)
    /\ UNCHANGED <<builderVars, ctq, queries, splitIndexes, index, tuples, query,
                   limit, found, rows, avail, cancelled, cancelAt>>

\* A variant whose loop goes on to the next query after a failure.
FailAndContinue(name, rev, begun) ==
    /\ log' = Append(log, Call(name, rev, FALSE))
    /\ txs' = IF begun THEN Rollback(txs) ELSE txs
    /\ pc' = "loop"
    /\ index' = index + 1
    /\ UNCHANGED <<builderVars, ctq, queries, splitIndexes, tuples, query,
                   limit, found, rows, avail, cancelled, cancelAt, ret>>

\* A stage of executeSingleQuery fails: it returns nil and the wrapped error
\* (after the deferred rollback when a transaction was begun), and
\* SplitAndExecute returns nil and that error.
Fail(name, rev, begun) ==
    /\ log' = Append(log, Call(name, rev, FALSE))
    /\ txs' = IF begun THEN Rollback(txs) ELSE txs
    /\ pc' = "done"
    /\ ret' = ReturnError(tuples)
    /\ UNCHANGED <<builderVars, ctq, queries, splitIndexes, index, tuples, query,
                   limit, found, rows, avail, cancelled, cancelAt>>

\* A variant whose loop hands the same query to executeSingleQuery again.
ReturnFoundSameIndex ==
    /\ txs' = Rollback(txs)
    /\ tuples' = tuples \o found
    /\ index' = index
    /\ pc' = "loop"
    /\ UNCHANGED <<builderVars, ctq, queries, splitIndexes, query, limit, found,
                   rows, avail, cancelled, cancelAt, ret>>

\* executeSingleQuery returns its tuples (after the deferred rows.Close and
\* rollback); SplitAndExecute appends them and moves to the next query.
ReturnFound ==
    /\ txs' = Rollback(txs)
    /\ tuples' = tuples \o found
    /\ index' = index + 1
    /\ pc' = "loop"
    /\ UNCHANGED <<builderVars, ctq, queries, splitIndexes, query, limit, found,
                   rows, avail, cancelled, cancelAt, ret>>

\* Line 260: query.queryBuilder.ToSql()
ToSqlOk ==
    /\ pc = "ToSql"
    /\ log' = Append(log, Call("ToSql", 0, TRUE))
    /\ pc' = "BeginTx"
    /\ UNCHANGED <<builderVars, ctq, queries, splitIndexes, index, tuples, query,
                   limit, found, rows, txs, avail, cancelled, cancelAt, ret>>

ToSqlFail ==
    /\ pc = "ToSql"
    /\ Fail("ToSql", 0, FALSE)

\* Line 267: ctq.Conn.BeginTx(ctx, ReadOnly); a done context begins nothing.
BeginTxOk ==
    /\ pc = "BeginTx"
    /\ ~ctxDone
    /\ log' = Append(log, Call("BeginTx", 0, TRUE))
    /\ txs' = Append(txs, [index |-> index, state |-> "open"])
    /\ pc' = AfterBeginTx(ctq)
    /\ UNCHANGED <<builderVars, ctq, queries, splitIndexes, index, tuples, query,
                   limit, found, rows, avail, cancelled, cancelAt, ret>>

BeginTxFail ==
    /\ pc = "BeginTx"
    /\ Fail("BeginTx", 0, FALSE)

\* Lines 275-282: ctq.PrepareTransaction(ctx, tx, ctq.Revision)
PrepareOk ==
    /\ pc = "PrepareTransaction"
    /\ log' = Append(log, Call("PrepareTransaction", ctq.Revision, TRUE))
    /\ pc' = "Query"
    /\ UNCHANGED <<builderVars, ctq, queries, splitIndexes, index, tuples, query,
                   limit, found, rows, txs, avail, cancelled, cancelAt, ret>>

PrepareFail ==
    /\ pc = "PrepareTransaction"
    /\ Fail("PrepareTransaction", ctq.Revision, TRUE)

\* Line 284: tx.Query(ctx, sql, args...); a done context issues nothing.
QueryOk ==
    /\ pc = "Query"
    /\ ~ctxDone
    /\ \E n \in 0..MaxRows, honours \in BOOLEAN :
          /\ avail' = Append(avail, n)
          /\ rows' = [left |-> Delivered(query.queryBuilder, n, honours),
                      next |-> 1]
    /\ log' = Append(log, Call("Query", 0, TRUE))
    /\ pc' = "Next"
    /\ UNCHANGED <<builderVars, ctq, queries, splitIndexes, index, tuples, query,
                   limit, found, txs, cancelled, cancelAt, ret>>

QueryFail ==
    /\ pc = "Query"
    /\ Fail("Query", 0, TRUE)

\* Lines 293-296: rows.Next() has a row but the cap is reached: early stop.
NextCap ==
    /\ pc = "Next"
    /\ rows.left > 0
    /\ CapReached(limit, found)
    /\ log' = Append(log, Call("Next", 0, TRUE))
    /\ ReturnFound

\* Lines 293-319: rows.Next() has a row and rows.Scan decodes it.
NextScan ==
    /\ pc = "Next"
    /\ rows.left > 0
    /\ ~CapReached(limit, found)
    /\ log' = Append(log, Call("Scan", 0, TRUE))
    /\ found' = Append(found, [part |-> index, row |-> rows.next])
    /\ rows' = [left |-> rows.left - 1, next |-> rows.next + 1]
    /\ UNCHANGED <<builderVars, ctq, pc, queries, splitIndexes, index, tuples,
                   query, limit, txs, avail, cancelled, cancelAt, ret>>

\* Lines 307-317: rows.Scan fails.
ScanFail ==
    /\ pc = "Next"
    /\ rows.left > 0
    /\ ~CapReached(limit, found)
    /\ Fail("Scan", 0, TRUE)

\* Lines 293 and 321-326: rows.Next() is false and rows.Err() is nil.
NextEnd ==
    /\ pc = "Next"
    /\ rows.left = 0
    /\ log' = Append(log, Call("Next", 0, TRUE))
    /\ ReturnFound

\* Lines 293 and 321-323: rows.Next() is false and rows.Err() is an error.
NextErr ==
    /\ pc = "Next"
    /\ Fail("Next", 0, TRUE)

\* The caller cancels its context while SplitAndExecute runs.
Cancel ==
    /\ pc \notin {"idle", "done", "panic"}
    /\ ~cancelled
    /\ cancelled' = TRUE
    /\ cancelAt' = IF pc \in {"ToSql", "BeginTx", "PrepareTransaction", "Query",
                              "Next"}
                   THEN index ELSE -1
    /\ UNCHANGED <<builderVars, ctq, pc, queries, splitIndexes, index, tuples,
                   query, limit, found, rows, txs, log, avail, ret>>

Next ==
    \/ Split
    \/ Iterate
    \/ Break
    \/ Finish
    \/ ToSqlOk
    \/ ToSqlFail
    \/ BeginTxOk
    \/ BeginTxFail
    \/ PrepareOk
    \/ PrepareFail
    \/ QueryOk
    \/ QueryFail
    \/ NextCap
    \/ NextScan
    \/ ScanFail
    \/ NextEnd
    \/ NextErr
    \/ Cancel

Spec == Init /\ [][Next]_vars

-----------------------------------------------------------------------------
(* The split alone, over a wider range of usersets, base sizes and         *)
(* thresholds.                                                             *)

SplitFilters ==
    RelationshipFilters \cup
    { [ResourceType |-> "", OptionalResourceId |-> "",
       OptionalRelation |-> "", OptionalSubjectFilter |-> <<>>] }

\* Usersets of sizes 0, 2, 4 and 19.
SplitUniverse ==
    UsersetUniverse \cup
    { Userset("", "", ""), Userset("ccccccccccccccccc", "3", "") }

SplitThresholds == {0, 2, 4, 7, 8, 12, 20}

InitSplit ==
    /\ \E filter \in SplitFilters,
          usersets \in SeqsUpTo(SplitUniverse, MaxUsersets),
          splitAt \in SplitThresholds :
          LET r == QueryTuplesBuilder(filter, 1)
          IN /\ heap = r.heap
             /\ ctq = QueryTuples(r.sqf, splitAt, 1, FALSE, <<>>, usersets)
    /\ reg = <<>>
    /\ nops = 0
    /\ pc = "SplitAndExecute"
    /\ queries = <<>>
    /\ splitIndexes = <<>>
    /\ index = 0
    /\ tuples = <<>>
    /\ query = <<>>
    /\ limit = 0
    /\ found = <<>>
    /\ rows = <<>>
    /\ txs = <<>>
    /\ log = <<>>
    /\ avail = <<>>
    /\ cancelled = FALSE
    /\ cancelAt = -1
    /\ ret = <<>>

SpecSplit == InitSplit /\ [][Split]_vars

-----------------------------------------------------------------------------
(* Properties.                                                             *)

RECURSIVE Flatten(_)
Flatten(ss) == IF ss = <<>> THEN <<>> ELSE Head(ss) \o Flatten(Tail(ss))

\* The userset slice a materialised query carries: the terms of the
\* disjunction FilterToUsersets added last.
SliceOf(q) == q.queryBuilder.Where[Len(q.queryBuilder.Where)].terms

\* The estimated size of a materialised query: base plus its members.
SizeOf(q) == q.currentEstimatedSize

BaseSize == ctq.FilteredQueryBuilder.currentEstimatedSize

Lim == ctq.Limit[1]

Done == pc = "done"
InFlight == pc \in {"ToSql", "BeginTx", "PrepareTransaction", "Query", "Next"}

\* Tuples collected from the partitions before partition i.
CollectedBefore(i) == Cardinality({k \in 1..Len(tuples) : tuples[k].part < i})

SomeStageFailed == \E j \in 1..Len(log) : ~log[j].ok

\* C1: when any stage of any partition has failed, the call returns zero
\* tuples and an error, whatever the earlier partitions produced; tuples
\* and an error are never returned together.
FailureReturnsNoTuples ==
    Done =>
        /\ SomeStageFailed => ret = [iter |-> <<>>, err |-> TRUE]
        /\ ret.err => ret.iter = <<>>

\* C1 witness: the second partition fails while decoding a row after the
\* first partition produced rows; the call returns no tuple and the error.
FailureAfterRowsReached ==
    /\ Done
    /\ ret.err /\ ret.iter = <<>>
    /\ Len(tuples) > 0
    /\ log[Len(log)].call = "Scan" /\ ~log[Len(log)].ok
    /\ log[Len(log)].index = 1

\* C2: a successful call returns min(L, R) tuples for a limit L and R rows
\* matched by the partitions' statements, all R when no limit is set.
\* (When the loop was left before the last partition, R is at least the rows
\* of the partitions issued, and the result must be L.)
ReturnsMinOfLimitAndRows ==
    Done /\ ~ret.err =>
        Len(ret.iter) =
            IF ctq.Limit = <<>> THEN SumSeq(avail)
            ELSE IF Len(avail) = Len(queries) THEN Min(Lim, SumSeq(avail))
            ELSE Lim

\* C3: with a limit set, every partition that is in flight, and every
\* transaction begun and statement issued, carries remaining = limit - rows
\* collected before it, remaining is not 0, it is the statement's LIMIT and
\* the limit of executeSingleQuery, and no more than remaining rows are
\* collected from the partition.
RemainingIsThePartitionCap ==
    ctq.Limit # <<>> =>
        /\ InFlight =>
              /\ limit = Lim - Len(tuples)
              /\ limit > 0
              /\ query.queryBuilder.Limit = <<limit>>
              /\ Len(found) <= limit
        /\ \A j \in 1..Len(log) :
              log[j].call \in {"BeginTx", "Query"} =>
                  /\ Lim - CollectedBefore(log[j].index) > 0
                  /\ log[j].stmt.Limit = <<Lim - CollectedBefore(log[j].index)>>
        /\ \A k \in 0..(Len(queries) - 1) :
              CollectedBefore(k + 1) - CollectedBefore(k)
                  <= Lim - CollectedBefore(k)

\* C3 witness: limit 3 over three partitions; the first yields 2 rows, the
\* second runs with LIMIT 1 and yields 1, the third is never begun.
ShortCircuitReached ==
    /\ Done /\ ~ret.err
    /\ ctq.Limit = <<MaxRows + 1>>
    /\ Len(queries) = 3
    /\ Len(txs) = 2
    /\ CollectedBefore(1) = MaxRows
    /\ Len(ret.iter) = MaxRows + 1

\* C4: once a non-empty userset list has been split, the queries are
\* materialised and their userset slices, concatenated in partition order,
\* are the userset list itself.
PartitionsConcatenateToUsersets ==
    pc # "SplitAndExecute" /\ Len(ctq.Usersets) > 0 =>
        /\ pc = "loop"
        /\ Flatten([k \in 1..Len(queries) |-> SliceOf(queries[k])])
               = ctq.Usersets

\* C4 witness: a list split into three partitions.
ThreePartitionsReached ==
    /\ pc = "loop"
    /\ Len(queries) = 3
    /\ Len(ctq.Usersets) = 3

\* C5 as stated: every partition is strictly under the threshold unless it
\* is a single userset whose own size exceeds the threshold.
PartitionUnderThresholdUnlessHugeUserset ==
    pc = "loop" /\ Len(ctq.Usersets) > 0 =>
        \A k \in 1..Len(queries) :
            \/ SizeOf(queries[k]) < ctq.SplitAtEstimatedQuerySize
            \/ /\ Len(SliceOf(queries[k])) = 1
               /\ UsersetSize(SliceOf(queries[k])[1])
                      > ctq.SplitAtEstimatedQuerySize

\* C5 amended: every partition is strictly under the threshold unless it is
\* a single userset whose size added to the base size reaches the threshold.
PartitionUnderThresholdUnlessSingleton ==
    pc = "loop" /\ Len(ctq.Usersets) > 0 =>
        \A k \in 1..Len(queries) :
            \/ SizeOf(queries[k]) < ctq.SplitAtEstimatedQuerySize
            \/ /\ Len(SliceOf(queries[k])) = 1
               /\ BaseSize + UsersetSize(SliceOf(queries[k])[1])
                      >= ctq.SplitAtEstimatedQuerySize

\* C5 witness: a split with a partition of two usersets under the threshold
\* and a singleton partition that reaches it.
MixedPartitionsReached ==
    /\ pc = "loop"
    /\ \E k \in 1..Len(queries) :
          /\ Len(SliceOf(queries[k])) = 2
          /\ SizeOf(queries[k]) < ctq.SplitAtEstimatedQuerySize
    /\ \E k \in 1..Len(queries) :
          /\ Len(SliceOf(queries[k])) = 1
          /\ SizeOf(queries[k]) >= ctq.SplitAtEstimatedQuerySize

Calls(name) == {j \in 1..Len(log) : log[j].call = name}

OpenTxs == {i \in 1..Len(txs) : txs[i].state = "open"}

\* C6: with a preparation hook configured, every statement issued follows
\* one successful hook call of its partition, which follows the begin of
\* that partition's transaction; the hook is called at most once per
\* partition and always with the splitter's Revision.
HookPinsEveryPartition ==
    ctq.PrepareTransaction =>
        /\ \A j \in Calls("Query") :
              /\ j >= 3
              /\ log[j - 1].call = "PrepareTransaction"
              /\ log[j - 1].ok
              /\ log[j - 1].index = log[j].index
              /\ log[j - 2].call = "BeginTx"
              /\ log[j - 2].ok
              /\ log[j - 2].index = log[j].index
        /\ pc \in {"Query", "Next"} =>
              \E j \in Calls("PrepareTransaction") :
                  log[j].ok /\ log[j].index = index
        /\ \A j, k \in Calls("PrepareTransaction") :
              log[j].index = log[k].index => j = k
        /\ \A j \in Calls("PrepareTransaction") : log[j].rev = ctq.Revision

\* C6 witness: a call with a hook that issued the statements of two
\* partitions.
HookCalledForTwoPartitions ==
    /\ Done
    /\ ctq.PrepareTransaction
    /\ \E j, k \in Calls("Query") : log[j].index = 0 /\ log[k].index = 1
    /\ Cardinality(Calls("PrepareTransaction")) = 2

\* C7: transactions are begun in partition order, at most one is open at
\* any moment, and every transaction but the last begun is released.
OneTransactionAtATime ==
    /\ Cardinality(OpenTxs) <= 1
    /\ \A i \in 1..Len(txs) : txs[i].index = i - 1
    /\ \A i \in 1..(Len(txs) - 1) : txs[i].state = "rolledback"

\* C7 witness: the second partition's transaction is open, the first
\* partition's has been released.
SecondTransactionOpen ==
    /\ Len(txs) = 2
    /\ txs[1].state = "rolledback"
    /\ txs[2].state = "open"
    /\ pc = "Next"

\* C8: a transaction is open or rolled back, never committed; whenever no
\* partition is in flight, and when the call has returned, every
\* transaction begun is rolled back; the only open one is the partition's
\* in flight.
EveryTransactionRolledBack ==
    /\ \A i \in 1..Len(txs) : txs[i].state \in {"open", "rolledback"}
    /\ ~InFlight => OpenTxs = {}
    /\ \A i \in OpenTxs : txs[i].index = index

\* C8 witness: the call has returned after an early stop at the row cap in
\* the first partition and a row-iteration error in the second, and both
\* transactions are rolled back.
RolledBackAfterCapAndError ==
    /\ Done
    /\ Len(txs) = 2
    /\ \A i \in 1..Len(txs) : txs[i].state = "rolledback"
    /\ log[Len(log)].call = "Next" /\ ~log[Len(log)].ok
    /\ \E j \in Calls("Next") : log[j].ok /\ log[j].index = 0
    /\ Len(tuples) < avail[1]

\* C9: when the caller's context is cancelled while a partition of a
\* multi-partition call is in flight, the call returns a failure, every
\* transaction is rolled back and no transaction is begun and no statement
\* issued for a later partition.
CancellationAbortsTheCall ==
    Done /\ cancelAt >= 0 /\ Len(queries) > 1 =>
        /\ ret.err
        /\ OpenTxs = {}
        /\ \A j \in Calls("BeginTx") \cup Calls("Query") :
              log[j].ok => log[j].index <= cancelAt

-----------------------------------------------------------------------------
\* C10: applying an operation to a builder leaves every other builder the
\* caller holds as it was: its statement, its estimated size and its
\* attribute list are the same after the operation as before.
BuildersNeverChangeEachOther ==
    [][\A s \in DOMAIN reg :
          reg'[s] = reg[s] => View(heap', reg'[s]) = View(heap, reg[s])]_vars

-----------------------------------------------------------------------------
\* The sub-queries executed so far: the calls of executeSingleQuery, each of
\* which starts by rendering its statement.
ExecutedQueries == Cardinality(Calls("ToSql"))

\* C11 as stated: for a userset list of one element exactly one sub-query is
\* executed by the time the call returns, whatever the threshold, the base
\* size and the limit.
SingleUsersetRunsOneQuery ==
    Done /\ Len(ctq.Usersets) = 1 =>
        /\ Len(queries) = 1
        /\ ExecutedQueries = 1

\* C11 amended: for a userset list of one element the split never fails and
\* materialises exactly one sub-query, whatever the threshold and the base
\* size; it is executed exactly once by the time the call returns, except
\* under a limit of 0, where the loop is left before it and none is executed.
SingleUsersetRunsOneQueryUnlessLimitZero ==
    pc # "SplitAndExecute" /\ Len(ctq.Usersets) = 1 =>
        /\ pc # "panic"
        /\ Len(queries) = 1
        /\ ExecutedQueries <= 1
        /\ Done => ExecutedQueries = IF ctq.Limit = <<0>> THEN 0 ELSE 1

\* C11 witness: a call with one userset that alone reaches the threshold has
\* returned under a limit after executing its one sub-query.
SingleUsersetOverThresholdExecuted ==
    /\ Done
    /\ Len(ctq.Usersets) = 1
    /\ BaseSize + UsersetSize(ctq.Usersets[1]) >= ctq.SplitAtEstimatedQuerySize
    /\ ctq.Limit = <<1>>
    /\ ExecutedQueries = 1
    /\ Len(ret.iter) = 1

-----------------------------------------------------------------------------
\* The first k rows the backend delivered for partition i (0-based), in the
\* order it delivered them.
RowsOf(i, k) == [r \in 1..k |-> [part |-> i, row |-> r]]

\* The rows of the executed partitions from partition i on, each truncated
\* to its cap (the limit less what precedes it), appended to acc in
\* partition order.  The backend delivers every matching row, or no more
\* than the statement's LIMIT, which is the cap: either way the truncation
\* leaves min(cap, matching rows).
RECURSIVE ConcatTruncated(_, _)
ConcatTruncated(i, acc) ==
    IF i >= Len(avail) THEN acc
    ELSE LET k == IF ctq.Limit = <<>> THEN avail[i + 1]
                  ELSE Min(avail[i + 1], Lim - Len(acc))
         IN ConcatTruncated(i + 1, acc \o RowsOf(i, k))

\* C12: the tuples of a successful call are the concatenation, in partition
\* order, of every executed partition's rows in the order the backend
\* delivered them, each partition truncated to its cap.
ResultIsPartitionsInOrder ==
    Done /\ ~ret.err => ret.iter = ConcatTruncated(0, <<>>)

\* The part of C12 about order alone: partitions never interleave, and the
\* rows of a partition are a prefix of what the backend delivered, in order.
ResultKeepsOrder ==
    Done /\ ~ret.err =>
        \A k \in 1..Len(ret.iter) :
            /\ ret.iter[k].row =
                   1 + Cardinality({j \in 1..(k - 1) :
                                       ret.iter[j].part = ret.iter[k].part})
            /\ \A j \in 1..(k - 1) : ret.iter[j].part <= ret.iter[k].part

\* The place of a call in the stages of one partition.
StageRank(call) ==
    CASE call = "ToSql" -> 1
      [] call = "BeginTx" -> 2
      [] call = "PrepareTransaction" -> 3
      [] call = "Query" -> 4
      [] call = "Scan" -> 5
      [] call = "Next" -> 6

\* C13: a failed stage is the last call the splitter makes: the call has
\* returned the failure, no stage and no partition follows it, a failed hook
\* is followed by no statement, and no stage of a partition runs twice:
\* the calls of a partition follow the order of the stages, only the
\* decoding of rows repeats, and a partition starts only after the one
\* before it has read its rows to their end or to the cap.
FailureAbortsTheCall ==
    /\ \A j \in 1..Len(log) :
          ~log[j].ok =>
              /\ j = Len(log)
              /\ Done /\ ret.err
              /\ \A k \in 1..Len(log) : log[k].index <= log[j].index
              /\ Len(txs) <= log[j].index + 1
              /\ log[j].call = "PrepareTransaction" =>
                    \A k \in Calls("Query") : log[k].index # log[j].index
    /\ Len(log) > 0 => log[1].call = "ToSql" /\ log[1].index = 0
    /\ \A j \in 1..(Len(log) - 1) :
          IF log[j + 1].call = "ToSql"
          THEN /\ log[j + 1].index = log[j].index + 1
               /\ log[j].call = "Next" /\ log[j].ok
          ELSE /\ log[j + 1].index = log[j].index
               /\ \/ StageRank(log[j].call) < StageRank(log[j + 1].call)
                  \/ log[j].call = "Scan" /\ log[j + 1].call = "Scan"

\* C13 witness: the hook fails in the first of several partitions; the call
\* has returned, its statement was never issued and no later partition was
\* begun.
HookFailureAbortsReached ==
    /\ Done /\ ret.err
    /\ Len(queries) > 1
    /\ log[Len(log)].call = "PrepareTransaction" /\ ~log[Len(log)].ok
    /\ log[Len(log)].index = 0
    /\ Calls("Query") = {}
    /\ Len(txs) = 1

-----------------------------------------------------------------------------
\* C14: an operation applied by the caller ends in a panic exactly when it
\* is FilterToUsersets with an empty list, and the panic hands back no
\* builder: the caller's builders stay as they were and it applies nothing
\* more; every other operation, FilterToUsersets with a non-empty list
\* included, returns a builder.
EmptyUsersetsPanic ==
    [][\A s \in Slots, o \in Operations :
          Chain(s, o) \/ Branch(s, o) =>
              /\ pc' = "panic" <=> (o.op = "FilterToUsersets" /\ Len(o.us) = 0)
              /\ pc' = "panic" => reg' = reg
              /\ pc' # "panic" =>
                    \E d \in DOMAIN reg' :
                        reg'[d] = Apply(heap, reg[s], o).sqf]_vars

\* C14 witness: a caller that held two builders has panicked on its third
\* operation.
PanicAfterChainReached ==
    /\ pc = "panic"
    /\ nops = 3
    /\ Cardinality(DOMAIN reg) = 2

-----------------------------------------------------------------------------
\* The byte length of the operands a predicate carries.
PredicateLength(p) ==
    IF p.kind = "eq" THEN Len(p.val)
    ELSE IF p.kind = "or"
    THEN SumSeq([k \in 1..Len(p.terms) |->
                    Len(p.terms[k].Namespace) + Len(p.terms[k].ObjectId)
                        + Len(p.terms[k].Relation)])
    ELSE 0

\* The byte lengths of all operands added to a statement so far.
OperandLengths(qb) ==
    SumSeq([k \in 1..Len(qb.Where) |-> PredicateLength(qb.Where[k])])

\* C18: every builder's estimated size is the sum of the lengths of the
\* operands added so far; an operation never makes the estimated size of a
\* caller's variable smaller, and one that adds no predicate (Limit) leaves
\* it unchanged.
EstimatedSizeIsSumOfOperands ==
    /\ [](\A s \in DOMAIN reg :
              reg[s].currentEstimatedSize = OperandLengths(reg[s].queryBuilder))
    /\ [][\A s \in DOMAIN reg :
              /\ reg'[s].currentEstimatedSize >= reg[s].currentEstimatedSize
              /\ reg'[s].queryBuilder.Where = reg[s].queryBuilder.Where =>
                    reg'[s].currentEstimatedSize = reg[s].currentEstimatedSize]_vars

\* C18 witness: a builder filtered to a subject with an empty relation (the
\* sentinel's three bytes are counted), then to a relation, then limited.
SentinelAndLimitCounted ==
    \E s \in DOMAIN reg :
        /\ reg[s].queryBuilder.Limit # <<>>
        /\ \E k \in 1..Len(reg[s].queryBuilder.Where) :
              reg[s].queryBuilder.Where[k] = Eq(schema.ColUsersetRelation, Ellipsis)
        /\ \E k \in 1..Len(reg[s].queryBuilder.Where) :
              reg[s].queryBuilder.Where[k] = Eq(schema.ColRelation, "view")
        /\ reg[s].currentEstimatedSize = 12

-----------------------------------------------------------------------------
\* Whether two sequences hold the same elements the same number of times.
IsPermutation(a, b) ==
    /\ Len(a) = Len(b)
    /\ \A k \in 1..Len(a) :
          Cardinality({j \in 1..Len(a) : a[j] = a[k]})
              = Cardinality({j \in 1..Len(b) : b[j] = a[k]})

\* The filters applied to a builder, as its attribute list records them.
Applied(s) == Elems(heap, reg[s].tracerAttributes)

\* C15: two builders to which the same equality filters were applied, in
\* whatever order, select the same rows of every table.
FilterOrderDoesNotMatter ==
    IsPermutation(Applied(1), Applied(2)) =>
        \A table \in Tables :
            Selected(reg[1].queryBuilder, table)
                = Selected(reg[2].queryBuilder, table)

\* C15 witness: one builder filtered by resource type then relation, the
\* other by relation then resource type.
TypeRelationBothOrdersReached ==
    /\ reg[1].queryBuilder.Where
           = <<Eq(schema.ColNamespace, "doc"), Eq(schema.ColRelation, "view")>>
    /\ reg[2].queryBuilder.Where
           = <<Eq(schema.ColRelation, "view"), Eq(schema.ColNamespace, "doc")>>

-----------------------------------------------------------------------------
\* The sum of the lengths of the namespace, object id and relation of the
\* usersets at (0-based) positions from..to of the list.
FieldLengths(usersets, from, to) ==
    SumSeq([k \in 1..(to - from + 1) |->
               Len(usersets[from + k].Namespace)
                   + Len(usersets[from + k].ObjectId)
                   + Len(usersets[from + k].Relation)])

\* The last boundary before (0-based) position i, 0 when there is none: the
\* position the partition that is current at i starts at.
PartitionStart(boundaries, i) ==
    IF \E b \in boundaries : b < i
    THEN CHOOSE b \in boundaries :
             b < i /\ \A c \in boundaries : c < i => c <= b
    ELSE 0

\* C16: the split indexes are increasing, and a boundary falls just before
\* userset i exactly when the current partition holds a userset (i is past
\* its start) and the running size (the base size plus the sizes of the
\* usersets the current partition holds) plus the size of userset i
\* reaches the threshold.
SplitsMatchReferenceScan ==
    pc = "loop" /\ Len(ctq.Usersets) > 0 =>
        LET boundaries == {splitIndexes[k] : k \in 1..Len(splitIndexes)}
        IN /\ \A k \in 1..(Len(splitIndexes) - 1) :
                  splitIndexes[k] < splitIndexes[k + 1]
           /\ \A i \in 0..(Len(ctq.Usersets) - 1) :
                  i \in boundaries <=>
                      /\ i > PartitionStart(boundaries, i)
                      /\ BaseSize
                             + FieldLengths(ctq.Usersets,
                                            PartitionStart(boundaries, i), i)
                             >= ctq.SplitAtEstimatedQuerySize

\* C16 witness: three usersets, one of them with a relation, under a non-zero
\* base size: the second joins the first and a boundary falls before the
\* third.
JoinThenBoundaryReached ==
    /\ pc = "loop"
    /\ BaseSize > 0
    /\ Len(ctq.Usersets) = 3
    /\ splitIndexes = <<2>>
    /\ \E k \in 1..3 : ctq.Usersets[k].Relation # ""

\* The userset slice of partition i (0-based), read off the split indexes.
OwnSlice(i) ==
    SubSeq(ctq.Usersets,
           (IF i = 0 THEN 0 ELSE splitIndexes[i]) + 1,
           IF i < Len(splitIndexes) THEN splitIndexes[i + 1]
           ELSE Len(ctq.Usersets))

\* C17: the statement rendered and issued for partition i carries the
\* predicates of the base builder, the living-row predicate of the
\* splitter's revision among them, followed by one disjunction over exactly
\* the partition's own userset slice, and as LIMIT what remains of the limit
\* for that partition (none without a limit); without a userset list the one
\* sub-query is the base builder as given.
SubQueryCarriesBaseAndOwnSlice ==
    LET base == ctq.FilteredQueryBuilder
    IN /\ \A j \in 1..Len(log) :
              log[j].call \in {"ToSql", "Query"} =>
                  /\ log[j].stmt.Where =
                         IF Len(ctq.Usersets) > 0
                         THEN Append(base.queryBuilder.Where,
                                     Or(OwnSlice(log[j].index)))
                         ELSE base.queryBuilder.Where
                  /\ log[j].stmt.Where[1] =
                         filterToLivingObjects(queryTuples, ctq.Revision).Where[1]
                  /\ log[j].stmt.Limit =
                         IF ctq.Limit = <<>> THEN <<>>
                         ELSE <<Lim - CollectedBefore(log[j].index)>>
       /\ pc \notin {"SplitAndExecute", "panic"} /\ Len(ctq.Usersets) = 0 =>
              queries = <<base>>

\* C17 witness: a limited call over two partitions has issued both
\* statements, each with its own slice and its own LIMIT.
TwoSubQueriesWithOwnLimits ==
    /\ Done /\ ~ret.err
    /\ Len(queries) = 2
    /\ \E j, k \in Calls("Query") :
          /\ log[j].index = 0 /\ log[k].index = 1
          /\ log[j].stmt.Limit # log[k].stmt.Limit
          /\ SliceOf([queryBuilder |-> log[j].stmt])
                 # SliceOf([queryBuilder |-> log[k].stmt])

\* C19: for a non-empty userset list the split never panics, its indexes are
\* strictly increasing within 1..len-1, and every partition handed to
\* FilterToUsersets holds at least one userset.
NoEmptyPartition ==
    pc # "SplitAndExecute" /\ Len(ctq.Usersets) > 0 =>
        /\ pc # "panic"
        /\ \A k \in 1..Len(splitIndexes) :
              splitIndexes[k] \in 1..(Len(ctq.Usersets) - 1)
        /\ \A k \in 1..(Len(splitIndexes) - 1) :
              splitIndexes[k] < splitIndexes[k + 1]
        /\ Len(queries) = Len(splitIndexes) + 1
        /\ \A k \in 1..Len(queries) : Len(SliceOf(queries[k])) > 0

\* C19 witness: a threshold below the base size splits a list of three
\* usersets, one of them of size 0, before every userset but the first.
ThresholdBelowBaseReached ==
    /\ pc = "loop"
    /\ ctq.SplitAtEstimatedQuerySize < BaseSize
    /\ Len(ctq.Usersets) = 3
    /\ splitIndexes = <<1, 2>>
    /\ \E k \in 1..3 : UsersetSize(ctq.Usersets[k]) = 0

\* C20: with a limit set, the tuples collected, those of the partition in
\* flight included, never exceed the limit, so the remaining count the loop
\* computes is the true difference and never a wrapped one.
CollectedWithinLimit ==
    ctq.Limit # <<>> =>
        /\ Len(tuples) <= Lim
        /\ InFlight => Len(tuples) + Len(found) <= Lim
        /\ pc \in {"loop", "done"} =>
              NewLimit(ctq, tuples) = Lim - Len(tuples)

\* C20 witness: under a limit of 1 the backend delivered more rows than the
\* statement's LIMIT; the call stopped at the cap with a row left unread and
\* returned one tuple without beginning the next partition.
OverDeliveryCapped ==
    /\ Done /\ ~ret.err
    /\ ctq.Limit = <<1>>
    /\ rows.left > 0
    /\ Len(ret.iter) = 1
    /\ Len(queries) > 1
    /\ Len(txs) = 1

====
